---- MODULE Spec2Model ----
(***************************************************************************)
(* A model of the query-generation pipeline of app/services/               *)
(* query_generator.py: the interpretation of an untrusted model response   *)
(* (JSON extraction, entry validation, deduplication, bucket cap), the     *)
(* optional self-check refinement pass, and the batch orchestrator with    *)
(* its sequential path and its semaphore-bounded concurrent path.          *)
(*                                                                         *)
(* Strings are sequences of one-character strings.  A response text is a   *)
(* sequence of lexical tokens (punctuation, string and number literals,    *)
(* the JSON words, whitespace, and prose that is no JSON token).           *)
(***************************************************************************)
EXTENDS Integers, Sequences, FiniteSets, TLC

(***************************************************************************)
(* Python str operations                                                   *)
(***************************************************************************)

\* The characters str.strip() removes.
Whitespace == {" ", "\n"}

\* str.lower() on one character (the upper-case letters the inputs use).
LowerChar(c) ==
    CASE c = "A" -> "a" [] c = "B" -> "b" [] c = "C" -> "c" [] c = "D" -> "d"
      [] c = "E" -> "e" [] c = "F" -> "f" [] c = "G" -> "g" [] c = "I" -> "i"
      [] c = "L" -> "l" [] c = "M" -> "m" [] c = "N" -> "n" [] c = "O" -> "o"
      [] c = "P" -> "p" [] c = "R" -> "r" [] c = "S" -> "s" [] c = "T" -> "t"
      [] c = "U" -> "u"
      [] OTHER -> c

\* str.lower()
Lower(s) == [i \in 1..Len(s) |-> LowerChar(s[i])]

\* str.strip(): drop the leading and the trailing whitespace.
Strip(s) ==
    LET keep == {i \in 1..Len(s) : s[i] \notin Whitespace}
    IN  IF keep = {} THEN <<>>
        ELSE LET lo == CHOOSE i \in keep : \A j \in keep : i <= j
                 hi == CHOOSE i \in keep : \A j \in keep : j <= i
             IN  SubSeq(s, lo, hi)

\* str.startswith(prefix)
StartsWith(s, prefix) == Len(s) >= Len(prefix) /\ SubSeq(s, 1, Len(prefix)) = prefix

(***************************************************************************)
(* JSON values as json.loads builds them.  Every value is a record of the  *)
(* same shape: t is its kind, s the characters of a string or a number,    *)
(* items the elements of a list or the member values of an object, keys    *)
(* the member names of an object.                                          *)
(***************************************************************************)

JNull == [t |-> "null", s |-> <<>>, keys |-> <<>>, items |-> <<>>]
JTrue == [t |-> "true", s |-> <<>>, keys |-> <<>>, items |-> <<>>]
JFalse == [t |-> "false", s |-> <<>>, keys |-> <<>>, items |-> <<>>]
JStr(cs) == [t |-> "str", s |-> cs, keys |-> <<>>, items |-> <<>>]
JNum(cs) == [t |-> "num", s |-> cs, keys |-> <<>>, items |-> <<>>]
JList(vs) == [t |-> "list", s |-> <<>>, keys |-> <<>>, items |-> vs]
JObj(ks, vs) == [t |-> "obj", s |-> <<>>, keys |-> ks, items |-> vs]

\* Python truthiness of a decoded value (what `x or ""` tests).
Truthy(v) ==
    CASE v.t = "null" -> FALSE
      [] v.t = "false" -> FALSE
      [] v.t = "true" -> TRUE
      [] v.t = "num" -> v.s # <<"0">>
      [] v.t = "str" -> v.s # <<>>
      [] OTHER -> v.items # <<>>

\* dict.get(key, default) on a decoded object: json.loads keeps the last of
\* several members with the same name.
DictGet(d, key, default) ==
    LET at == {i \in 1..Len(d.keys) : d.keys[i] = key}
    IN  IF at = {} THEN default
        ELSE d.items[CHOOSE i \in at : \A j \in at : j <= i]

(***************************************************************************)
(* Response texts and json.loads                                           *)
(***************************************************************************)

Tok(k) == [tok |-> k, s |-> <<>>]
TStr(cs) == [tok |-> "str", s |-> cs]
TNum(cs) == [tok |-> "num", s |-> cs]
\* a run of whitespace between tokens
TWs == Tok("ws")
\* prose, a markdown fence: text that is no JSON token
TProse == Tok("prose")

\* str.strip() on a response text.
StripText(text) ==
    LET keep == {i \in 1..Len(text) : text[i].tok # "ws"}
    IN  IF keep = {} THEN <<>>
        ELSE LET lo == CHOOSE i \in keep : \A j \in keep : i <= j
                 hi == CHOOSE i \in keep : \A j \in keep : j <= i
             IN  SubSeq(text, lo, hi)

\* str.find("{"): the first opening brace, 0 for Python's -1.
FindOpen(text) ==
    LET at == {i \in 1..Len(text) : text[i].tok = "{"}
    IN  IF at = {} THEN 0 ELSE CHOOSE i \in at : \A j \in at : i <= j

\* str.find("}"): the first closing brace, 0 for Python's -1.
FindClose(text) ==
    LET at == {i \in 1..Len(text) : text[i].tok = "}"}
    IN  IF at = {} THEN 0 ELSE CHOOSE i \in at : \A j \in at : i <= j

\* str.rfind("}"): the last closing brace, 0 for Python's -1.
RFindClose(text) ==
    LET at == {i \in 1..Len(text) : text[i].tok = "}"}
    IN  IF at = {} THEN 0 ELSE CHOOSE i \in at : \A j \in at : j <= i

ParseFail == [ok |-> FALSE, v |-> JNull, next |-> 0]
ParseOk(v, n) == [ok |-> TRUE, v |-> v, next |-> n]

RECURSIVE ParseValue(_, _)
RECURSIVE ParseElems(_, _, _)
RECURSIVE ParseMembers(_, _, _, _)

\* One JSON value starting at token i: the value and the position after it.
ParseValue(toks, i) ==
    IF i > Len(toks) THEN ParseFail
    ELSE LET k == toks[i].tok IN
         CASE k = "str" -> ParseOk(JStr(toks[i].s), i + 1)
           [] k = "num" -> ParseOk(JNum(toks[i].s), i + 1)
           [] k = "true" -> ParseOk(JTrue, i + 1)
           [] k = "false" -> ParseOk(JFalse, i + 1)
           [] k = "null" -> ParseOk(JNull, i + 1)
           [] k = "[" ->
                IF i + 1 <= Len(toks) /\ toks[i + 1].tok = "]"
                THEN ParseOk(JList(<<>>), i + 2)
                ELSE ParseElems(toks, i + 1, <<>>)
           [] k = "{" ->
                IF i + 1 <= Len(toks) /\ toks[i + 1].tok = "}"
                THEN ParseOk(JObj(<<>>, <<>>), i + 2)
                ELSE ParseMembers(toks, i + 1, <<>>, <<>>)
           [] OTHER -> ParseFail

\* The elements of a list after its "[" or after a ",".
ParseElems(toks, i, acc) ==
    LET r == ParseValue(toks, i) IN
    IF ~r.ok \/ r.next > Len(toks) THEN ParseFail
    ELSE IF toks[r.next].tok = "," THEN ParseElems(toks, r.next + 1, Append(acc, r.v))
    ELSE IF toks[r.next].tok = "]" THEN ParseOk(JList(Append(acc, r.v)), r.next + 1)
    ELSE ParseFail

\* The members of an object after its "{" or after a ",".
ParseMembers(toks, i, ks, vs) ==
    IF i + 1 > Len(toks) \/ toks[i].tok # "str" \/ toks[i + 1].tok # ":" THEN ParseFail
    ELSE LET r == ParseValue(toks, i + 2) IN
         IF ~r.ok \/ r.next > Len(toks) THEN ParseFail
         ELSE IF toks[r.next].tok = ","
              THEN ParseMembers(toks, r.next + 1, Append(ks, toks[i].s), Append(vs, r.v))
         ELSE IF toks[r.next].tok = "}"
              THEN ParseOk(JObj(Append(ks, toks[i].s), Append(vs, r.v)), r.next + 1)
         ELSE ParseFail

\* json.loads(text): the decoded value, or ok = FALSE for JSONDecodeError.
\* Whitespace between tokens is skipped; the whole text must be one value.
JsonLoads(text) ==
    LET toks == SelectSeq(text, LAMBDA x : x.tok # "ws")
        r == ParseValue(toks, 1)
    IN  IF r.ok /\ r.next = Len(toks) + 1 THEN [ok |-> TRUE, v |-> r.v]
        ELSE [ok |-> FALSE, v |-> JNull]

(***************************************************************************)
(* The string constants of the pipeline                                    *)
(***************************************************************************)

kQueries == <<"q", "u", "e", "r", "i", "e", "s">>
kText == <<"t", "e", "x", "t">>
kStyle == <<"s", "t", "y", "l", "e">>
kBucket == <<"b", "u", "c", "k", "e", "t">>
sShort == <<"s", "h", "o", "r", "t">>
sNatural == <<"n", "a", "t", "u", "r", "a", "l">>
sLong == <<"l", "o", "n", "g">>
sMisc == <<"m", "i", "s", "c">>
sPrice == <<"p", "r", "i", "c", "e">>
sOccasion == <<"o", "c", "c", "a", "s", "i", "o", "n">>
sMaterial == <<"m", "a", "t", "e", "r", "i", "a", "l">>
sFit == <<"f", "i", "t">>
sBrand == <<"b", "r", "a", "n", "d">>
sRating == <<"r", "a", "t", "i", "n", "g">>


\* prompts.BUCKETS
BUCKETS == {sPrice, sOccasion, sMaterial, sFit, sBrand, sRating}

\* The bucket lower-cased and trimmed, with no check against BUCKETS.
valid_bucket_unchecked(value) == Strip(Lower(value))

\* The bucket trimmed but not lower-cased before the test against BUCKETS.
valid_bucket_case_sensitive(value) ==
    LET v == Strip(value)
    IN  IF v \in BUCKETS \/ v = sMisc THEN v ELSE sMisc

\* prompts.valid_bucket_or_misc
valid_bucket_or_misc(value) ==
    LET v == Strip(Lower(value))
    IN  IF v \in BUCKETS \/ v = sMisc THEN v ELSE sMisc

(***************************************************************************)
(* Interpreting the entries of a decoded response                          *)
(***************************************************************************)

\* schemas.QueryOut
QueryOut(text, style, bucket) == [text |-> text, style |-> style, bucket |-> bucket]

\* `(q.get(name) or "").strip()`: a falsy or missing member gives "", a string
\* is stripped, and any other truthy value has no strip(): AttributeError.
StrField(q, name) ==
    LET v == DictGet(q, name, JNull)
    IN  IF ~Truthy(v) THEN [raised |-> FALSE, s |-> <<>>]
        ELSE IF v.t = "str" THEN [raised |-> FALSE, s |-> Strip(v.s)]
        ELSE [raised |-> TRUE, s |-> <<>>]

\* `x or default` on strings
OrDefault(s, default) == IF s = <<>> THEN default ELSE s

\* The style test of the older services/generator.py: a prefix "nat".
StyleNormStartsWithNat(style) ==
    IF StartsWith(Lower(style), <<"n", "a", "t">>) THEN sNatural ELSE sShort

\* style_norm: "natural" when the lower-cased style is natural or long.
StyleNorm(style) == IF Lower(style) \in {sNatural, sLong} THEN sNatural ELSE sShort

\* One pass of the loop body over an entry q: "raise" (q has no get(), or a
\* member has no strip()), "skip" (empty text) or "accept" with the query.
AcceptEntry(q) ==
    IF q.t # "obj" THEN [kind |-> "raise", q |-> QueryOut(<<>>, <<>>, <<>>)]
    ELSE LET text == StrField(q, kText)
             style == StrField(q, kStyle)
             bucket == StrField(q, kBucket)
         IN  IF text.raised \/ style.raised \/ bucket.raised
             THEN [kind |-> "raise", q |-> QueryOut(<<>>, <<>>, <<>>)]
             ELSE IF text.s = <<>>
             THEN [kind |-> "skip", q |-> QueryOut(<<>>, <<>>, <<>>)]
             ELSE [kind |-> "accept",
                   q |-> QueryOut(text.s,
                                  StyleNorm(OrDefault(style.s, sShort)),
                                  valid_bucket_or_misc(OrDefault(bucket.s, sMisc)))]

\* `for q in raw_queries`: what Python iterates over.  A list gives its
\* elements, a string its characters, an object its member names; null, a
\* number and a boolean are not iterable: TypeError.
IterItems(raw) ==
    CASE raw.t = "list" -> [ok |-> TRUE, items |-> raw.items]
      [] raw.t = "str" -> [ok |-> TRUE, items |-> [i \in 1..Len(raw.s) |-> JStr(<<raw.s[i]>>)]]
      [] raw.t = "obj" -> [ok |-> TRUE, items |-> [i \in 1..Len(raw.keys) |-> JStr(raw.keys[i])]]
      [] OTHER -> [ok |-> FALSE, items |-> <<>>]

RECURSIVE AcceptFrom(_, _, _)
\* The loop over the entries from the i-th on, `out` being the list so far.
AcceptFrom(items, i, out) ==
    IF i > Len(items) THEN [raised |-> FALSE, out |-> out]
    ELSE LET e == AcceptEntry(items[i]) IN
         IF e.kind = "raise" THEN [raised |-> TRUE, out |-> <<>>]
         ELSE AcceptFrom(items, i + 1, IF e.kind = "accept" THEN Append(out, e.q) ELSE out)

\* `data.get("queries", [])` and the loop over it: data must have get().
AcceptQueries(data) ==
    IF data.t # "obj" THEN [raised |-> TRUE, out |-> <<>>]
    ELSE LET it == IterItems(DictGet(data, kQueries, JList(<<>>)))
         IN  IF ~it.ok THEN [raised |-> TRUE, out |-> <<>>]
             ELSE AcceptFrom(it.items, 1, <<>>)

\* A key that tells texts apart by case.
KeyCaseSensitive(q) == <<q.text, q.style, q.bucket>>

\* The deduplication key of a query.
Key(q) == <<Lower(q.text), q.style, q.bucket>>

RECURSIVE DedupeFrom(_, _, _, _)
\* The first-pass dedupe loop from the i-th entry on.
DedupeFrom(out, i, seen, deduped) ==
    IF i > Len(out) THEN deduped
    ELSE IF Key(out[i]) \in seen THEN DedupeFrom(out, i + 1, seen, deduped)
    ELSE DedupeFrom(out, i + 1, seen \cup {Key(out[i])}, Append(deduped, out[i]))

Dedupe(out) == DedupeFrom(out, 1, {}, <<>>)

\* The most entries of one bucket the refinement pass keeps.
BucketCap == 2

\* capped.get(bucket, 0)
CappedGet(capped, bucket) == IF bucket \in DOMAIN capped THEN capped[bucket] ELSE 0

\* The cap tested with > in place of >=.
CapReachedLate(capped, bucket) == CappedGet(capped, bucket) > BucketCap

\* `capped.get(q.bucket, 0) >= 2`
CapReached(capped, bucket) == CappedGet(capped, bucket) >= BucketCap

RECURSIVE DedupeCapFrom(_, _, _, _, _)
\* The refinement pass's dedupe-and-cap loop from the i-th entry on.
DedupeCapFrom(refined, i, seen2, capped, final) ==
    IF i > Len(refined) THEN final
    ELSE LET q == refined[i] IN
         IF Key(q) \in seen2 THEN DedupeCapFrom(refined, i + 1, seen2, capped, final)
         ELSE IF CapReached(capped, q.bucket)
         THEN DedupeCapFrom(refined, i + 1, seen2, capped, final)
         ELSE DedupeCapFrom(refined, i + 1, seen2 \cup {Key(q)},
                            [b \in DOMAIN capped \cup {q.bucket} |->
                                IF b = q.bucket THEN CappedGet(capped, b) + 1 ELSE capped[b]],
                            Append(final, q))

DedupeCap(refined) == DedupeCapFrom(refined, 1, {}, <<>>, <<>>)

(***************************************************************************)
(* The two extraction heuristics                                           *)
(***************************************************************************)

\* {"queries": []}
EmptyQueries == JObj(<<kQueries>>, <<JList(<<>>)>>)

\* First pass: json.loads, then the text between the first "{" and the last
\* "}", then {"queries": []}.  Never raises.
ExtractFirst(content) ==
    LET whole == JsonLoads(content)
        start == FindOpen(content)
        end == RFindClose(content)
    IN  IF whole.ok THEN whole.v
        ELSE IF start # 0 /\ end # 0 /\ end > start
        THEN LET inner == JsonLoads(SubSeq(content, start, end))
             IN  IF inner.ok THEN inner.v ELSE EmptyQueries
        ELSE EmptyQueries

\* Refinement pass: the same, but a failure to decode the text between the
\* braces is not caught here: JSONDecodeError leaves the stage.
ExtractRefined(content2) ==
    LET whole == JsonLoads(content2)
        s == FindOpen(content2)
        e == RFindClose(content2)
    IN  IF whole.ok THEN [raised |-> FALSE, v |-> whole.v]
        ELSE IF s # 0 /\ e # 0 /\ e > s
        THEN LET inner == JsonLoads(SubSeq(content2, s, e))
             IN  IF inner.ok THEN [raised |-> FALSE, v |-> inner.v]
                 ELSE [raised |-> TRUE, v |-> JNull]
        ELSE [raised |-> FALSE, v |-> EmptyQueries]


(***************************************************************************)
(* json.dumps, and the Model Client's responses                            *)
(***************************************************************************)

RECURSIVE Dumps(_)
RECURSIVE DumpsElems(_, _)
RECURSIVE DumpsMembers(_, _)

\* json.dumps(v, separators=(",", ":")): the minified text of a value.
Dumps(v) ==
    CASE v.t = "str" -> <<TStr(v.s)>>
      [] v.t = "num" -> <<TNum(v.s)>>
      [] v.t = "list" -> <<Tok("[")>> \o DumpsElems(v, 1) \o <<Tok("]")>>
      [] v.t = "obj" -> <<Tok("{")>> \o DumpsMembers(v, 1) \o <<Tok("}")>>
      [] OTHER -> <<Tok(v.t)>>

DumpsElems(v, i) ==
    IF i > Len(v.items) THEN <<>>
    ELSE (IF i > 1 THEN <<Tok(",")>> ELSE <<>>) \o Dumps(v.items[i]) \o DumpsElems(v, i + 1)

DumpsMembers(v, i) ==
    IF i > Len(v.items) THEN <<>>
    ELSE (IF i > 1 THEN <<Tok(",")>> ELSE <<>>)
         \o <<TStr(v.keys[i]), Tok(":")>> \o Dumps(v.items[i]) \o DumpsMembers(v, i + 1)

\* What one Model Client invocation gives: the call raises, the response has
\* no choices, its first choice has no message, the message has no content
\* (None or ""), or the message has a content text.
RespRaise == [kind |-> "raise", text |-> <<>>]
RespNoChoices == [kind |-> "nochoices", text |-> <<>>]
RespNoMessage == [kind |-> "nomessage", text |-> <<>>]
RespNoContent == [kind |-> "nocontent", text |-> <<>>]
RespContent(text) == [kind |-> "content", text |-> text]
\* no response yet
NoResponse == [kind |-> "none", text |-> <<>>]

(***************************************************************************)
(* generate_queries_for_single_product, between its suspension points      *)
(***************************************************************************)

Raised == [kind |-> "raise", queries |-> <<>>]
Returned(queries) == [kind |-> "return", queries |-> queries]
\* the run has not ended
NoOutcome == [kind |-> "none", queries |-> <<>>]

\* The first call's exception caught and turned into an empty result.
FirstCallFailedSwallowed == [kind |-> "return", out |-> <<>>, queries |-> <<>>]

\* `except Exception:` around the first call: logged, then `raise`.
FirstCallFailed == [kind |-> "raise", out |-> <<>>, queries |-> <<>>]

\* The response read without the guards: resp.choices[0] or message.content
\* of nothing raises.
EmptyResponseRaises == [kind |-> "raise", out |-> <<>>, queries |-> <<>>]

\* No choices, no message or no content: logged, then `return []`.
EmptyResponse == [kind |-> "return", out |-> <<>>, queries |-> <<>>]

\* From the return of the first call to the end of the first-pass dedupe:
\* how it ends, the list `out` and the list `deduped`.
FirstPass(resp) ==
    CASE resp.kind = "raise" -> FirstCallFailed
      [] resp.kind \in {"nochoices", "nomessage", "nocontent"} -> EmptyResponse
      [] OTHER ->
           LET content == StripText(resp.text)
               acc == AcceptQueries(ExtractFirst(content))
           IN  IF acc.raised THEN [kind |-> "raise", out |-> <<>>, queries |-> <<>>]
               ELSE [kind |-> "continue", out |-> acc.out, queries |-> Dedupe(acc.out)]

\* The refinement stage without its try/except: the exception leaves the function.
RefineFailedRaises(deduped) == Raised

\* `except Exception:` of the refinement stage, then `return deduped`.
RefineFailed(deduped) == Returned(deduped)

\* The refined list appended to the first-pass list.
SelectMerged(final, deduped) == Returned(deduped \o final)

\* `if final: return final`, else the fall through to `return deduped`.
SelectResult(final, deduped) == IF final # <<>> THEN Returned(final) ELSE Returned(deduped)

\* From the return of the second call to the end of the function: whether
\* an exception was caught in the stage, the lists `refined` and `final`, and
\* how the function ends.
RefineStage(resp2, deduped) ==
    CASE resp2.kind = "raise" ->
           [failed |-> TRUE, refined |-> <<>>, final |-> <<>>, oc |-> RefineFailed(deduped)]
      [] resp2.kind \in {"nochoices", "nomessage"} ->
           [failed |-> FALSE, refined |-> <<>>, final |-> <<>>, oc |-> Returned(deduped)]
      [] OTHER ->
           LET content2 == StripText(resp2.text)
               ex == ExtractRefined(content2)
               acc == AcceptQueries(ex.v)
               final == DedupeCap(acc.out)
           IN  IF ex.raised \/ acc.raised
               THEN [failed |-> TRUE, refined |-> <<>>, final |-> <<>>,
                     oc |-> RefineFailed(deduped)]
               ELSE [failed |-> FALSE, refined |-> acc.out, final |-> final,
                     oc |-> SelectResult(final, deduped)]

(***************************************************************************)
(* generate_queries_for_batch                                              *)
(***************************************************************************)

\* schemas.GeneratedQueriesOut
GeneratedQueriesOut(product_id, queries) == [product_id |-> product_id, queries |-> queries]

\* run_one without its try/except: the exception leaves run_one.
run_one_unguarded(product_id, oc) ==
    [exc |-> oc.kind = "raise",
     value |-> GeneratedQueriesOut(product_id, IF oc.kind = "raise" THEN <<>> ELSE oc.queries)]

\* run_one: an exception of the single-product run becomes an empty query
\* sequence.  exc says whether an exception leaves run_one.
run_one(product_id, oc) ==
    [exc |-> FALSE,
     value |-> GeneratedQueriesOut(product_id, IF oc.kind = "raise" THEN <<>> ELSE oc.queries)]

\* A release that a failed run skips (acquire and release with no finally).
ReleaseUnlessRaised(value, oc) == IF oc.kind = "raise" THEN value ELSE value + 1

\* The slot given back twice: by `async with sem` and by a release() of its own.
ReleaseTwice(value, oc) == value + 2

\* The end of `async with sem`: the slot is given back however the run ended.
Release(value, oc) == value + 1

\* No admission gate: every task is admitted at once.
AdmitAlways(value) == TRUE

\* `async with sem`: a task is admitted while the semaphore's value is positive.
Admit(value) == value > 0

\* The results in the order the tasks ended (as asyncio.as_completed gives them).
GatherAsCompleted(taskResult, finished) ==
    [k \in 1..Len(finished) |-> taskResult[finished[k]].value]

\* asyncio.gather: the results of the tasks in the order the tasks were given.
Gather(taskResult, finished) == [i \in 1..Len(taskResult) |-> taskResult[i].value]

\* The lower bound mistaken for 2: max(2, int(settings.concurrency_limit))
ConcurLimitAtLeastTwo(limit) == IF limit > 2 THEN limit ELSE 2

\* max(1, int(settings.concurrency_limit))
ConcurLimit(limit) == IF limit > 1 THEN limit ELSE 1


(***************************************************************************)
(* Bounds and inputs                                                       *)
(***************************************************************************)

\* the most products of a batch
MaxProducts == 3
\* the largest settings.concurrency_limit
MaxLimit == 2

ProductIds == <<"p1", "p2", "p3", "p4", "p5", "p6">>

\* The batches: the first n product ids, for every n up to MaxProducts.
ProductLists == {[i \in 1..n |-> ProductIds[i]] : n \in 0..MaxProducts}

\* The values of settings.concurrency_limit: below 1, 1, and above.
LimitValues == {-1, 0} \cup 1..MaxLimit

\* An entry {"text": text, "style": style, "bucket": bucket} of a response.
Entry(text, style, bucket) == JObj(<<kText, kStyle, kBucket>>, <<text, style, bucket>>)

\* The object {"queries": v}.
Queries(v) == JObj(<<kQueries>>, <<v>>)

eAbNaturalPrice == Entry(JStr(<<"A", "b">>), JStr(sNatural), JStr(<<"P", "R", "I", "C", "E">>))
eabLongPrice == Entry(JStr(<<" ", "a", "b", " ">>), JStr(<<"L", "o", "n", "g">>), JStr(sPrice))
eABNaturalPrice == Entry(JStr(<<"A", "B">>), JStr(sNatural), JStr(sPrice))
eabPrice == JObj(<<kText, kBucket>>, <<JStr(<<"a", "b">>), JStr(sPrice)>>)
ecLongFormPrice == Entry(JStr(<<"c">>), JStr(sLong \o <<"-", "f", "o", "r", "m">>), JStr(<<" ", "p", "r", "i", "c", "e">>))
eBlankFit == Entry(JStr(<<" ">>), JStr(sShort), JStr(sFit))
ecShortGift == Entry(JStr(<<"c">>), JStr(sShort), JStr(<<"g", "i", "f", "t">>))
eNumberText == Entry(JNum(<<"5">>), JStr(sShort), JStr(sFit))
eRedNaturalMATERIAL ==
    Entry(JStr(<<"r", "e", "d">>), JStr(sNatural), JStr(<<"M", "A", "T", "E", "R", "I", "A", "L">>))
eabOnlyText == JObj(<<kText>>, <<JStr(<<"a", "b">>)>>)

\* The responses of the Model Client in a batch run: the call raises, an
\* empty response, a well-formed text, and a text that is a JSON list.
GoodText == Dumps(Queries(JList(<<eAbNaturalPrice, ecShortGift>>)))
RefinedText == Dumps(Queries(JList(<<eabPrice>>)))
ListText == Dumps(JList(<<eabPrice>>))

BatchResponses1 == {RespRaise, RespNoChoices, RespContent(GoodText), RespContent(ListText)}
BatchResponses2 == {RespRaise, RespContent(RefinedText)}

(***************************************************************************)
(* State                                                                   *)
(***************************************************************************)

VARIABLES
    products,           \* the batch's input: the product ids, in input order
    concurrency_limit,  \* settings.concurrency_limit
    llm_self_check,     \* settings.llm_self_check
    sdk_available,      \* config.AsyncOpenAI is not None
    api_key_set,        \* settings.openai_api_key is not empty
    bpc,                \* where generate_queries_for_batch is
    sem,                \* the semaphore's value
    pc,                 \* where each product's run is
    calls,              \* the Model Client invocations started for each product
    resp1,              \* what the first call of each product gave
    resp2,              \* what the refinement call of each product gave
    out,                \* each run's first-pass list before the dedupe
    deduped,            \* each run's first-pass result
    refined,            \* each run's refined list before the dedupe and the cap
    final,              \* each run's refined list after them
    refineFailed,       \* whether the refinement stage caught an exception
    outcome,            \* how generate_queries_for_single_product ended
    results,            \* the sequential path's result list
    taskResult,         \* what each limited_run task ended with
    finished,           \* the tasks in the order they ended
    returned,           \* what generate_queries_for_batch returned
    prev                \* the batch run before this one, when there was one

vars == <<products, concurrency_limit, llm_self_check, sdk_available, api_key_set,
          bpc, sem, pc, calls, resp1, resp2, out, deduped, refined, final, refineFailed,
          outcome, results, taskResult, finished, returned, prev>>

\* the lists of the first pass and of the refinement stage
first == <<out, deduped>>
second == <<refined, final, refineFailed>>

\* what no step of a batch run changes: the input, the settings, and the
\* record of an earlier run
config == <<products, concurrency_limit, llm_self_check, sdk_available, api_key_set, prev>>

N == Len(products)

\* get_openai_async_client() is None, or the API key is empty: RuntimeError.
ConfigError == ~sdk_available \/ ~api_key_set

NoTaskResult == [exc |-> FALSE, value |-> GeneratedQueriesOut("", <<>>)]

\* no batch run before this one
NoPrev == [ran |-> FALSE, resp1 |-> <<>>, resp2 |-> <<>>, returned |-> <<>>]

InitRun ==
    /\ prev = NoPrev
    /\ bpc = "start"
    /\ sem = 0
    /\ pc = [i \in 1..N |-> "idle"]
    /\ calls = [i \in 1..N |-> 0]
    /\ resp1 = [i \in 1..N |-> NoResponse]
    /\ resp2 = [i \in 1..N |-> NoResponse]
    /\ out = [i \in 1..N |-> <<>>]
    /\ deduped = [i \in 1..N |-> <<>>]
    /\ refined = [i \in 1..N |-> <<>>]
    /\ final = [i \in 1..N |-> <<>>]
    /\ refineFailed = [i \in 1..N |-> FALSE]
    /\ outcome = [i \in 1..N |-> NoOutcome]
    /\ results = <<>>
    /\ taskResult = [i \in 1..N |-> NoTaskResult]
    /\ finished = <<>>
    /\ returned = <<>>

Init ==
    /\ products \in ProductLists
    /\ concurrency_limit \in LimitValues
    /\ llm_self_check \in BOOLEAN
    /\ sdk_available \in BOOLEAN
    /\ api_key_set \in BOOLEAN
    /\ InitRun

(***************************************************************************)
(* Actions                                                                 *)
(***************************************************************************)

\* The batch without its test for an empty input: it goes on to read the
\* limit and, above 1, to make the semaphore.
ReturnEmptyAfterLimit ==
    /\ bpc = "start"
    /\ products = <<>>
    /\ bpc' = IF ConcurLimit(concurrency_limit) <= 1 THEN "sequential" ELSE "gather"
    /\ sem' = IF ConcurLimit(concurrency_limit) <= 1 THEN sem ELSE ConcurLimit(concurrency_limit)
    /\ UNCHANGED <<config, pc, calls, resp1, resp2, first, second, outcome, results,
                   taskResult, finished, returned>>

\* `if not products: return []`
ReturnEmpty ==
    /\ bpc = "start"
    /\ products = <<>>
    /\ bpc' = "returned"
    /\ returned' = <<>>
    /\ UNCHANGED <<config, sem, pc, calls, resp1, resp2, first, second, outcome, results,
                   taskResult, finished>>

\* concur_limit <= 1: the loop over the products begins.
StartSequential ==
    /\ bpc = "start"
    /\ products # <<>>
    /\ ConcurLimit(concurrency_limit) <= 1
    /\ bpc' = "sequential"
    /\ UNCHANGED <<config, sem, pc, calls, resp1, resp2, first, second, outcome, results,
                   taskResult, finished, returned>>

\* concur_limit > 1: the semaphore and one limited_run task per product.
StartConcurrent ==
    /\ bpc = "start"
    /\ products # <<>>
    /\ ConcurLimit(concurrency_limit) > 1
    /\ bpc' = "gather"
    /\ sem' = ConcurLimit(concurrency_limit)
    /\ pc' = [i \in 1..N |-> "waiting"]
    /\ UNCHANGED <<config, calls, resp1, resp2, first, second, outcome, results,
                   taskResult, finished, returned>>

\* The run of product i ends with the outcome oc: run_one wraps it; on the
\* sequential path the result is appended (and the batch returns after the
\* last product), on the concurrent path the task ends and leaves the
\* semaphore, whose value was semNow.
Complete(i, oc, semNow) ==
    LET ro == run_one(products[i], oc) IN
    /\ pc' = [pc EXCEPT ![i] = "done"]
    /\ outcome' = [outcome EXCEPT ![i] = oc]
    /\ IF bpc = "sequential"
       THEN /\ IF ro.exc
               THEN /\ bpc' = "raised"
                    /\ UNCHANGED <<results, returned>>
               ELSE /\ results' = Append(results, ro.value)
                    /\ bpc' = IF i = N THEN "returned" ELSE bpc
                    /\ returned' = IF i = N THEN results' ELSE returned
            /\ UNCHANGED <<sem, taskResult, finished>>
       ELSE /\ taskResult' = [taskResult EXCEPT ![i] = ro]
            /\ finished' = Append(finished, i)
            /\ sem' = Release(semNow, oc)
            /\ UNCHANGED <<bpc, results, returned>>

\* The run of product i from its start to its first suspension: the
\* configuration checks, then the first Model Client call.
StartRun(i, semNow) ==
    IF ConfigError
    THEN /\ Complete(i, Raised, semNow)
         /\ UNCHANGED calls
    ELSE /\ pc' = [pc EXCEPT ![i] = "call1"]
         /\ calls' = [calls EXCEPT ![i] = 1]
         /\ sem' = semNow
         /\ UNCHANGED <<bpc, outcome, results, taskResult, finished, returned>>

\* Sequential path: `await run_one(p)` for the next product.
SeqNext(i) ==
    /\ bpc = "sequential"
    /\ i = Len(results) + 1
    /\ pc[i] = "idle"
    /\ StartRun(i, sem)
    /\ UNCHANGED <<config, resp1, resp2, first, second>>

\* Concurrent path: task i passes the semaphore and starts its run.
Acquire(i) ==
    /\ bpc \in {"gather", "raised"}
    /\ pc[i] = "waiting"
    /\ Admit(sem)
    /\ StartRun(i, sem - 1)
    /\ UNCHANGED <<config, resp1, resp2, first, second>>

\* The first call of product i gives r.
Call1Return(i, r) ==
    /\ pc[i] = "call1"
    /\ resp1' = [resp1 EXCEPT ![i] = r]
    /\ LET fp == FirstPass(r) IN
       /\ out' = [out EXCEPT ![i] = fp.out]
       /\ deduped' = [deduped EXCEPT ![i] = fp.queries]
       /\ IF fp.kind = "continue" /\ llm_self_check
          THEN /\ pc' = [pc EXCEPT ![i] = "call2"]
               /\ calls' = [calls EXCEPT ![i] = 2]
               /\ UNCHANGED <<bpc, sem, outcome, results, taskResult, finished, returned>>
          ELSE /\ Complete(i, IF fp.kind = "raise" THEN Raised ELSE Returned(fp.queries), sem)
               /\ UNCHANGED calls
    /\ UNCHANGED <<config, resp2, second>>

\* The refinement call of product i gives r.
Call2Return(i, r) ==
    /\ pc[i] = "call2"
    /\ resp2' = [resp2 EXCEPT ![i] = r]
    /\ LET rs == RefineStage(r, deduped[i]) IN
       /\ refined' = [refined EXCEPT ![i] = rs.refined]
       /\ final' = [final EXCEPT ![i] = rs.final]
       /\ refineFailed' = [refineFailed EXCEPT ![i] = rs.failed]
       /\ Complete(i, rs.oc, sem)
    /\ UNCHANGED <<config, calls, resp1, first>>

\* Concurrent path: gather ends when every task has ended, or raises as soon
\* as one task has ended with an exception.
GatherDone ==
    /\ bpc = "gather"
    /\ \/ \A i \in 1..N : pc[i] = "done"
       \/ \E i \in 1..N : taskResult[i].exc
    /\ IF \E i \in 1..N : taskResult[i].exc
       THEN /\ bpc' = "raised"
            /\ UNCHANGED returned
       ELSE /\ bpc' = "returned"
            /\ returned' = Gather(taskResult, finished)
    /\ UNCHANGED <<config, sem, pc, calls, resp1, resp2, first, second, outcome, results,
                   taskResult, finished>>

Next ==
    \/ ReturnEmpty
    \/ StartSequential
    \/ StartConcurrent
    \/ \E i \in 1..N : SeqNext(i)
    \/ \E i \in 1..N : Acquire(i)
    \/ \E i \in 1..N : \E r \in BatchResponses1 : Call1Return(i, r)
    \/ \E i \in 1..N : \E r \in BatchResponses2 : Call2Return(i, r)
    \/ GatherDone

Spec == Init /\ [][Next]_vars


\* The limits of the two runs: the sequential path and every concurrent one.
TwoRunLimits == 1..MaxLimit

\* generate_queries_for_batch is called once more with the same products,
\* under any concurrency limit, after its first run has returned: the first
\* run's responses and results are kept for comparison, and the run starts
\* from nothing, as every call does.
Rerun ==
    /\ bpc = "returned"
    /\ ~prev.ran
    /\ prev' = [ran |-> TRUE, resp1 |-> resp1, resp2 |-> resp2, returned |-> returned]
    /\ concurrency_limit' \in TwoRunLimits
    /\ bpc' = "start"
    /\ sem' = 0
    /\ pc' = [i \in 1..N |-> "idle"]
    /\ calls' = [i \in 1..N |-> 0]
    /\ resp1' = [i \in 1..N |-> NoResponse]
    /\ resp2' = [i \in 1..N |-> NoResponse]
    /\ out' = [i \in 1..N |-> <<>>]
    /\ deduped' = [i \in 1..N |-> <<>>]
    /\ refined' = [i \in 1..N |-> <<>>]
    /\ final' = [i \in 1..N |-> <<>>]
    /\ refineFailed' = [i \in 1..N |-> FALSE]
    /\ outcome' = [i \in 1..N |-> NoOutcome]
    /\ results' = <<>>
    /\ taskResult' = [i \in 1..N |-> NoTaskResult]
    /\ finished' = <<>>
    /\ returned' = <<>>
    /\ UNCHANGED <<products, llm_self_check, sdk_available, api_key_set>>

\* Two runs over the same batch, of fewer than MaxProducts products.
InitTwoRuns ==
    /\ products \in {l \in ProductLists : Len(l) < MaxProducts}
    /\ concurrency_limit \in TwoRunLimits
    /\ llm_self_check \in BOOLEAN
    /\ sdk_available = TRUE
    /\ api_key_set \in BOOLEAN
    /\ InitRun

NextTwoRuns == Next \/ Rerun

SpecTwoRuns == InitTwoRuns /\ [][NextTwoRuns]_vars

\* The scheduling the batch runs under.  The event loop runs every task that
\* is ready, so a step of the batch or of a task that stays possible is
\* taken; the waiters of an asyncio.Semaphore are woken as slots free; and
\* every Model Client invocation returns or raises.
Fairness ==
    /\ WF_vars(ReturnEmpty)
    /\ WF_vars(StartSequential)
    /\ WF_vars(StartConcurrent)
    /\ WF_vars(GatherDone)
    /\ \A i \in 1..MaxProducts :
          /\ WF_vars(i \in 1..N /\ SeqNext(i))
          /\ WF_vars(i \in 1..N /\ Acquire(i))
          /\ WF_vars(i \in 1..N /\ \E r \in BatchResponses1 : Call1Return(i, r))
          /\ WF_vars(i \in 1..N /\ \E r \in BatchResponses2 : Call2Return(i, r))

SpecLive == Init /\ [][Next]_vars /\ Fairness

(***************************************************************************)
(* One product with the full range of responses                            *)
(***************************************************************************)

\* the most entries of a response's "queries" list
MaxEntries == 4

\* The entries the lists are made of: three that differ in case and
\* spelling but share a key, the same text with no style, a style and a
\* bucket that are not in the closed sets, and a blank text.
Entries == {eAbNaturalPrice, eabLongPrice, eABNaturalPrice, eabPrice, ecLongFormPrice,
            eBlankFit, ecShortGift}

\* The lists of up to MaxEntries different entries, in every order.
EntryLists ==
    UNION {{l \in [1..n -> Entries] : \A i, j \in 1..n : i # j => l[i] # l[j]} :
           n \in 0..MaxEntries}

\* Entries that are no well-formed {text, style, bucket} object.
OddEntries ==
    {JStr(<<"c">>), JNull, JNum(<<"5">>), JList(<<>>), JObj(<<>>, <<>>), eNumberText,
     Entry(JList(<<JStr(<<"c">>)>>), JStr(sShort), JStr(sFit)),
     Entry(JStr(<<"c">>), JNum(<<"5">>), JStr(sFit)),
     Entry(JStr(<<>>), JStr(sShort), JNum(<<"7">>)),
     Entry(JTrue, JStr(sShort), JStr(sFit)),
     Entry(JNum(<<"0">>), JStr(sShort), JStr(sFit)),
     Entry(JNull, JNull, JNull),
     Entry(JStr(<<"c">>), JNull, JStr(<<>>)),
     Entry(JStr(<<"c">>), JStr(<<"N", "A", "T", "U", "R", "A", "L">>), JStr(sMisc))}

\* Decoded values that are not {"queries": [entries]}.
OddValues ==
    {JList(<<>>), JList(<<eabPrice>>), JStr(<<"c">>), JNum(<<"5">>), JNull, JTrue,
     JObj(<<>>, <<>>), eabPrice,
     Queries(JNull), Queries(JNum(<<"5">>)), Queries(JNum(<<"0">>)), Queries(JFalse),
     Queries(JStr(<<>>)), Queries(JStr(<<"a", "b">>)), Queries(JObj(<<>>, <<>>)),
     Queries(eabPrice),
     JObj(<<kQueries, kQueries>>, <<JList(<<eabPrice>>), JList(<<>>)>>),
     JObj(<<kQueries, kQueries>>, <<JNull, JList(<<eabPrice>>)>>),
     Queries(JList(<<ecShortGift,
                     Entry(JStr(<<"c">>), JStr(sNatural), JStr(sMisc)),
                     Entry(JStr(<<"C">>), JNull, JStr(<<>>)),
                     Entry(JStr(<<"a", "b">>), JStr(sLong), JStr(<<"g", "i", "f", "t">>)),
                     eabPrice>>)),
     Queries(JList(<<eRedNaturalMATERIAL>>)),
     Queries(JList(<<eRedNaturalMATERIAL, ecShortGift,
                     Entry(JStr(<<"C">>), JNull, JStr(<<>>)),
                     eabOnlyText, ecLongFormPrice>>))}
    \cup {Queries(JList(<<e>>)) : e \in OddEntries}
    \cup {Queries(JList(<<eabPrice, e>>)) : e \in OddEntries}

\* A text with prose and whitespace around it.
Wrap(text) == <<TWs, TProse, TWs>> \o text \o <<TWs, TProse, TWs>>

\* Texts that json.loads refuses as they are.
BrokenTexts ==
    {<<TProse>>, <<TWs>>, <<TProse, Tok("{"), TProse, Tok("}")>>,
     <<Tok("}"), TProse, Tok("{")>>, <<Tok("{")>>, <<Tok("}")>>,
     SubSeq(GoodText, 1, Len(GoodText) - 1),
     SubSeq(GoodText, 2, Len(GoodText)),
     GoodText \o GoodText,
     GoodText \o <<Tok("}")>>,
     <<Tok("{"), TStr(kQueries), Tok(":"), Tok("[")>> \o Dumps(eabPrice)
         \o <<Tok(","), Tok("]"), Tok("}")>>}

PlainTexts ==
    {Dumps(Queries(JList(l))) : l \in EntryLists} \cup {Dumps(v) : v \in OddValues}

RichTexts ==
    PlainTexts
    \cup BrokenTexts
    \cup {Wrap(Dumps(Queries(JList(l)))) : l \in UNION {[1..n -> Entries] : n \in 0..1}}
    \cup {Wrap(Dumps(v)) : v \in OddValues}
    \cup {<<TWs>> \o GoodText \o <<TWs>>}

\* Every response the Model Client is given to make.
RichResponses ==
    {RespRaise, RespNoChoices, RespNoMessage, RespNoContent}
    \cup {RespContent(t) : t \in RichTexts}

\* Two first responses: one with queries, one with none.
FirstSamples == {RespContent(GoodText), RespContent(<<TProse>>)}

\* Two refinement responses: the call raises, and one with a query.
SecondSamples == {RespRaise, RespContent(RefinedText)}

\* The refinement response is drawn from all responses when the first
\* response was one of the two samples, and from the two samples otherwise.
SecondResponses == IF resp1[1] \in FirstSamples THEN RichResponses ELSE SecondSamples

InitSingle ==
    /\ products = <<ProductIds[1]>>
    /\ concurrency_limit = 1
    /\ llm_self_check \in BOOLEAN
    /\ sdk_available = TRUE
    /\ api_key_set = TRUE
    /\ InitRun

NextSingle ==
    \/ StartSequential
    \/ SeqNext(1)
    \/ \E r \in RichResponses : Call1Return(1, r)
    \/ \E r \in SecondResponses : Call2Return(1, r)

SpecSingle == InitSingle /\ [][NextSingle]_vars

(***************************************************************************)
(* Claims about the batch orchestrator                                     *)
(***************************************************************************)

\* The Model Client invocations started and neither returned nor failed.
Outstanding == {i \in 1..N : pc[i] \in {"call1", "call2"}}

\* C1: the batch never raises, and what it returns has the length of the
\* input, its i-th result carrying the id of the i-th input product, for
\* every concurrency limit and every order in which the runs end.
C1_OrderPreserved ==
    /\ bpc # "raised"
    /\ bpc = "returned" =>
          /\ Len(returned) = Len(products)
          /\ \A i \in 1..Len(products) : returned[i].product_id = products[i]

\* C1 witness: a concurrent batch has returned whose runs ended in an order
\* that is not the input order.
C1_Witness ==
    /\ bpc = "returned"
    /\ concurrency_limit > 1
    /\ Len(products) >= 3
    /\ Len(finished) = Len(products)
    /\ finished[1] # 1
    /\ \E k \in 1..Len(finished) - 1 : finished[k] > finished[k + 1]

\* C2: with a concurrency limit C > 1, at most C Model Client invocations
\* (first-pass and refinement calls together) are outstanding in any state.
C2_OutstandingBounded ==
    concurrency_limit > 1 => Cardinality(Outstanding) <= concurrency_limit

\* C2 witness: C invocations are outstanding, a first call and a refinement
\* call among them, while another product waits at the semaphore.
C2_Witness ==
    /\ concurrency_limit > 1
    /\ Cardinality(Outstanding) = concurrency_limit
    /\ \E i, j, k \in 1..N : pc[i] = "call1" /\ pc[j] = "call2" /\ pc[k] = "waiting"

\* What the responses r1 and r2 to one product's calls make of its result.
ExpectedQueries(r1, r2) ==
    LET fp == FirstPass(r1) IN
    IF fp.kind # "continue" THEN <<>>
    ELSE IF llm_self_check THEN RefineStage(r2, fp.queries).oc.queries
    ELSE fp.queries

\* C3: when the first call raises for a product, the batch still returns
\* one result per product: the failing product's queries are empty, and
\* every product's result is what its own responses make of it, whatever
\* happened to the other products.
C3_FailureIsolated ==
    ~ConfigError =>
        /\ bpc # "raised"
        /\ bpc = "returned" =>
              /\ Len(returned) = Len(products)
              /\ \A i \in 1..Len(products) :
                    /\ resp1[i].kind = "raise" => returned[i].queries = <<>>
                    /\ returned[i].queries = ExpectedQueries(resp1[i], resp2[i])

\* C3 witness: a batch of three has returned in which the first call of
\* product 2 raised and products 1 and 3 have queries.
C3_Witness ==
    /\ bpc = "returned"
    /\ Len(products) = 3
    /\ resp1[2].kind = "raise"
    /\ Len(returned) = 3
    /\ returned[2].queries = <<>>
    /\ returned[1].queries # <<>>
    /\ returned[3].queries # <<>>

\* C6 (as claimed): with a configuration error, a batch with products does
\* not return per-product results: the error reaches the caller.
C6_ConfigErrorFatal ==
    (ConfigError /\ products # <<>>) => bpc # "returned"


(***************************************************************************)
(* Claims about the single-product pipeline                                *)
(***************************************************************************)

\* The closed sets of the data model.
StyleValues == {sShort, sNatural}
BucketValues == BUCKETS \cup {sMisc}

\* The composite key of the specification.
SpecKey(q) == <<Lower(q.text), q.style, q.bucket>>

\* The positions of l whose key no earlier position has.
FirstSeenIdx(l) == {i \in 1..Len(l) : \A j \in 1..(i - 1) : SpecKey(l[j]) # SpecKey(l[i])}

\* Of those, the positions with fewer than two earlier ones of the same bucket.
CapIdx(l) ==
    {i \in FirstSeenIdx(l) :
        Cardinality({j \in FirstSeenIdx(l) : j < i /\ l[j].bucket = l[i].bucket}) < 2}

\* The entries of l at the positions idx, in the order of l.
Pick(l, idx) ==
    LET F[k \in 0..Len(l)] ==
            IF k = 0 THEN <<>>
            ELSE IF k \in idx THEN Append(F[k - 1], l[k]) ELSE F[k - 1]
    IN  F[Len(l)]

\* No two entries of l share a key.
DistinctKeys(l) == \A i, j \in 1..Len(l) : i # j => SpecKey(l[i]) # SpecKey(l[j])

\* The run of product i went through the refinement stage.
Refining(i) == llm_self_check /\ pc[i] = "done" /\ resp2[i].kind # "none"

\* C4: with self-check on, when the refinement stage caught an exception (a
\* raising second call among them) or accepted no query, the function
\* returns the first-pass deduplicated list and raises nothing.
C4_RefinementFallsBack ==
    \A i \in 1..N :
        /\ (pc[i] = "done" /\ resp2[i].kind = "raise") => refineFailed[i]
        /\ (Refining(i) /\ (refineFailed[i] \/ final[i] = <<>>)) =>
               outcome[i] = Returned(deduped[i])

\* C4 witness: the refined text has braces but does not decode, the first
\* pass had queries, and the run ended with them.
C4_Witness ==
    /\ Refining(1)
    /\ resp2[1] = RespContent(<<TProse, Tok("{"), TProse, Tok("}")>>)
    /\ refineFailed[1]
    /\ deduped[1] # <<>>
    /\ outcome[1] = Returned(deduped[1])

\* C5: with self-check on, when the refinement stage accepted a query, the
\* function returns the refined list after dedupe and cap, and every entry
\* of the result is an entry of the refined list.
C5_RefinedReplaces ==
    \A i \in 1..N :
        (Refining(i) /\ final[i] # <<>>) =>
            /\ outcome[i] = Returned(final[i])
            /\ \A k \in 1..Len(outcome[i].queries) :
                  \E j \in 1..Len(refined[i]) : outcome[i].queries[k] = refined[i][j]

\* C5 witness: the first pass had a query the refined list has not, and the
\* run ended with the refined list.
C5_Witness ==
    /\ Refining(1)
    /\ final[1] # <<>>
    /\ \E k \in 1..Len(deduped[1]) :
          \A j \in 1..Len(refined[1]) : deduped[1][k] # refined[1][j]
    /\ outcome[1].queries = final[1]

\* C7 (as claimed): whatever the text of the first response, interpreting
\* it raises nothing.
C7_FirstPassNeverRaises ==
    \A i \in 1..N : resp1[i].kind = "content" => outcome[i].kind # "raise"

\* A query of the data model: a trimmed, non-empty text, and a style and a
\* bucket of the closed sets.
WellFormed(q) ==
    /\ q.text # <<>>
    /\ Strip(q.text) = q.text
    /\ q.style \in StyleValues
    /\ q.bucket \in BucketValues

\* C8: every query of every list the pipeline produces or returns is well
\* formed.
C8_QueriesWellFormed ==
    /\ \A i \in 1..N :
          /\ \A k \in 1..Len(deduped[i]) : WellFormed(deduped[i][k])
          /\ \A k \in 1..Len(final[i]) : WellFormed(final[i][k])
          /\ \A k \in 1..Len(outcome[i].queries) : WellFormed(outcome[i].queries[k])
    /\ \A i \in 1..Len(returned) :
          \A k \in 1..Len(returned[i].queries) : WellFormed(returned[i].queries[k])

\* C8 witness: the response had a bucket "gift" and a style "long-form", and
\* the batch returned queries for it.
C8_Witness ==
    /\ bpc = "returned"
    /\ Len(returned) = 1
    /\ Len(returned[1].queries) >= 2
    /\ \E k \in 1..Len(resp1[1].text) : resp1[1].text[k] = TStr(<<"g", "i", "f", "t">>)
    /\ \E k \in 1..Len(resp1[1].text) :
          resp1[1].text[k] = TStr(sLong \o <<"-", "f", "o", "r", "m">>)
    /\ \E k \in 1..Len(returned[1].queries) : returned[1].queries[k].bucket = sMisc

\* C9: the first-pass result is the accepted list with, of the entries of
\* one key, only the first, in the order of the list, nothing else dropped;
\* and no two entries of a refined or a returned list share a key.
C9_Deduplicated ==
    \A i \in 1..N :
        /\ deduped[i] = Pick(out[i], FirstSeenIdx(out[i]))
        /\ DistinctKeys(final[i])
        /\ DistinctKeys(outcome[i].queries)

\* C9 witness: the accepted list has two texts that differ only in case,
\* with one style and bucket, then an entry of another key; the first and
\* the last are kept.
C9_Witness ==
    /\ pc[1] = "done"
    /\ Len(out[1]) >= 3
    /\ out[1][1].text # out[1][2].text
    /\ SpecKey(out[1][1]) = SpecKey(out[1][2])
    /\ SpecKey(out[1][1]) # SpecKey(out[1][3])
    /\ Len(deduped[1]) = Len(out[1]) - 1
    /\ outcome[1].queries = deduped[1]

\* C10: the refined result is the accepted list with, for each bucket, the
\* first two entries of different keys and none after them, so it has at
\* most two entries of any bucket.
C10_BucketCapped ==
    \A i \in 1..N :
        /\ final[i] = Pick(refined[i], CapIdx(refined[i]))
        /\ \A k \in 1..Len(final[i]) :
              Cardinality({j \in 1..Len(final[i]) : final[i][j].bucket = final[i][k].bucket}) <= 2
        /\ (Refining(i) /\ final[i] # <<>>) => outcome[i].queries = final[i]

\* C10 witness: the accepted refined list has a duplicate and three further
\* keys of one bucket; the cap drops an entry the dedupe would keep, and an
\* entry of another bucket after it is kept.
C10_Witness ==
    /\ Refining(1)
    /\ Len(refined[1]) >= 5
    /\ Cardinality(FirstSeenIdx(refined[1])) < Len(refined[1])
    /\ Len(final[1]) < Cardinality(FirstSeenIdx(refined[1]))
    /\ Len(final[1]) >= 3
    /\ final[1][Len(final[1])].bucket # final[1][1].bucket
    /\ outcome[1].queries = final[1]

(***************************************************************************)
(* Claims about the normalisation of an entry                              *)
(***************************************************************************)

\* The entries of a decoded response the loop accepted, in their order.
AcceptedItems(data) ==
    IF AcceptQueries(data).raised THEN <<>>
    ELSE SelectSeq(IterItems(DictGet(data, kQueries, JList(<<>>))).items,
                   LAMBDA q : AcceptEntry(q).kind = "accept")

\* The entries accepted from the first response and from the refined one.
Accepted1(i) ==
    IF resp1[i].kind = "content" /\ out[i] # <<>>
    THEN AcceptedItems(ExtractFirst(StripText(resp1[i].text)))
    ELSE <<>>
Accepted2(i) ==
    IF resp2[i].kind = "content" /\ refined[i] # <<>>
    THEN AcceptedItems(ExtractRefined(StripText(resp2[i].text)).v)
    ELSE <<>>

\* The member `name` of an accepted entry as the model emitted it: its
\* characters, none when the member is missing, null or otherwise falsy.
Emitted(q, name) ==
    LET v == DictGet(q, name, JNull) IN IF v.t = "str" THEN v.s ELSE <<>>

\* The emitted style, trimmed and lower-cased, is natural or long.
LongFormExact(style) == Lower(Strip(style)) \in {sNatural, sLong}

\* The emitted style, trimmed and lower-cased, begins with natural or long.
LongFormPrefix(style) ==
    StartsWith(Lower(Strip(style)), sNatural) \/ StartsWith(Lower(Strip(style)), sLong)

\* The styles of the queries `made` follow the test `LongForm` of the
\* emitted styles of the entries `from`.
StylesFollow(from, made, LongForm(_)) ==
    \A k \in 1..Len(from) :
        made[k].style = IF LongForm(Emitted(from[k], kStyle)) THEN sNatural ELSE sShort

\* C11 (as claimed): in both passes an accepted entry has the style natural
\* when its emitted style begins with or equals natural or long, and the
\* style short otherwise.
C11_StylePrefixNatural ==
    \A i \in 1..N :
        LET a1 == Accepted1(i)
            a2 == Accepted2(i)
        IN  /\ StylesFollow(a1, out[i], LongFormPrefix)
            /\ StylesFollow(a2, refined[i], LongFormPrefix)

\* C11 (amended): in both passes an accepted entry has the style natural
\* when its emitted style, trimmed and lower-cased, equals natural or long,
\* and the style short otherwise: when it merely begins with one of them,
\* is any other string, is empty or is missing.
C11_StyleExactNatural ==
    \A i \in 1..N :
        LET a1 == Accepted1(i)
            a2 == Accepted2(i)
        IN  /\ Len(a1) = Len(out[i])
            /\ Len(a2) = Len(refined[i])
            /\ StylesFollow(a1, out[i], LongFormExact)
            /\ StylesFollow(a2, refined[i], LongFormExact)

\* C11 witness: the first pass accepted a natural and a short entry, and the
\* refinement pass accepted "Long" as natural and "long-form" and a missing
\* style as short.
C11_Witness ==
    /\ Refining(1)
    /\ \E k \in 1..Len(out[1]) : out[1][k].style = sNatural
    /\ \E k \in 1..Len(out[1]) : out[1][k].style = sShort
    /\ Len(refined[1]) >= 3
    /\ LET a2 == Accepted2(1) IN
       /\ Len(a2) = Len(refined[1])
       /\ \E a, b, c \in 1..Len(refined[1]) :
             /\ Emitted(a2[a], kStyle) = <<"L", "o", "n", "g">>
             /\ refined[1][a].style = sNatural
             /\ Emitted(a2[b], kStyle) = sLong \o <<"-", "f", "o", "r", "m">>
             /\ refined[1][b].style = sShort
             /\ DictGet(a2[c], kStyle, JNull) = JNull
             /\ refined[1][c].style = sShort

\* The bucket of the specification for an emitted bucket: lower-cased and
\* trimmed, itself when it is one of the six, misc otherwise.
SpecBucket(bucket) ==
    LET b == Strip(Lower(bucket)) IN IF b \in BUCKETS THEN b ELSE sMisc

\* The buckets of the queries `made` are those of the specification for the
\* emitted buckets of the entries `from`.
BucketsFollow(from, made) ==
    \A k \in 1..Len(from) : made[k].bucket = SpecBucket(Emitted(from[k], kBucket))

\* C12: in both passes the bucket of an accepted entry is its emitted bucket
\* lower-cased and trimmed when that is price, occasion, material, fit, brand
\* or rating, and misc for every other emitted bucket, an empty and a missing
\* one included.
C12_BucketNormalized ==
    \A i \in 1..N :
        LET a1 == Accepted1(i)
            a2 == Accepted2(i)
        IN  /\ Len(a1) = Len(out[i])
            /\ Len(a2) = Len(refined[i])
            /\ BucketsFollow(a1, out[i])
            /\ BucketsFollow(a2, refined[i])

\* C12 witness: the first pass accepted entries whose emitted buckets were
\* MATERIAL, gift, the empty string, none at all and " price", and made
\* material, misc, misc, misc and price of them.
C12_Witness ==
    /\ pc[1] = "done"
    /\ Len(out[1]) = 5
    /\ LET a1 == Accepted1(1) IN
       /\ Len(a1) = 5
       /\ Emitted(a1[1], kBucket) = <<"M", "A", "T", "E", "R", "I", "A", "L">>
       /\ Emitted(a1[2], kBucket) = <<"g", "i", "f", "t">>
       /\ DictGet(a1[3], kBucket, JNull) = JStr(<<>>)
       /\ kBucket \notin {a1[4].keys[j] : j \in 1..Len(a1[4].keys)}
       /\ Emitted(a1[5], kBucket) = <<" ", "p", "r", "i", "c", "e">>
    /\ [k \in 1..5 |-> out[1][k].bucket] = <<sMaterial, sMisc, sMisc, sMisc, sPrice>>
    /\ outcome[1].kind = "return"

(***************************************************************************)
(* Claims about the extraction of the JSON object                          *)
(***************************************************************************)

\* The positions of the opening and of the closing braces of a text.
Opens(content) == {a \in 1..Len(content) : content[a].tok = "{"}
Closes(content) == {b \in 1..Len(content) : content[b].tok = "}"}

\* The text from its first opening to its last closing brace, for a text
\* that has an opening brace before a closing one.
BraceSpan(content) ==
    LET lo == CHOOSE a \in Opens(content) : \A x \in Opens(content) : a <= x
        hi == CHOOSE b \in Closes(content) : \A x \in Closes(content) : x <= b
    IN  SubSeq(content, lo, hi)

\* The first pass of product i made no query of its response and raised
\* nothing.
FirstPassEmpty(i) ==
    /\ out[i] = <<>>
    /\ deduped[i] = <<>>
    /\ outcome[i].kind # "raise"
    /\ (pc[i] = "done" /\ ~llm_self_check) => outcome[i] = Returned(<<>>)

\* The first pass of product i interpreted the decoded value v: it accepted
\* the entries of its "queries", or raised where they cannot be read.
FirstPassInterprets(i, v) ==
    LET acc == AcceptQueries(v) IN
    /\ out[i] = acc.out
    /\ deduped[i] = Dedupe(acc.out)
    /\ acc.raised <=> outcome[i].kind = "raise"

\* C13: when the trimmed text of the first response is no JSON value, the
\* text from its first "{" to its last "}" is decoded and the "queries" of
\* that value are interpreted; when no "{" comes before a "}" or that text
\* does not decode either, the first pass has no queries and raises nothing.
C13_BraceFallback ==
    \A i \in 1..N :
        (resp1[i].kind = "content" /\ ~JsonLoads(StripText(resp1[i].text)).ok) =>
            LET content == StripText(resp1[i].text) IN
            IF \E a \in Opens(content) : \E b \in Closes(content) : a < b
            THEN LET inner == JsonLoads(BraceSpan(content)) IN
                 IF inner.ok THEN FirstPassInterprets(i, inner.v) ELSE FirstPassEmpty(i)
            ELSE FirstPassEmpty(i)

\* C13 witness: the first response is prose, then the object
\* {"queries":[{"text":"red","style":"natural","bucket":"MATERIAL"}]}, then
\* prose; the run returned the one query red / natural / material.
C13_Witness ==
    /\ pc[1] = "done"
    /\ ~llm_self_check
    /\ resp1[1] = RespContent(Wrap(Dumps(Queries(JList(<<eRedNaturalMATERIAL>>)))))
    /\ ~JsonLoads(StripText(resp1[1].text)).ok
    /\ outcome[1] = Returned(<<QueryOut(<<"r", "e", "d">>, sNatural, sMaterial)>>)

(***************************************************************************)
(* Claims about the batch orchestrator, continued                          *)
(***************************************************************************)

\* C14: with an empty product sequence the batch goes from its start to its
\* return of the empty sequence and is nowhere else: it never is past the
\* line that reads the concurrency limit, makes no semaphore, starts no run
\* (so creates no client and invokes nothing) and does not raise.
C14_EmptyBatch ==
    products = <<>> =>
        /\ bpc \in {"start", "returned"}
        /\ sem = 0
        /\ DOMAIN calls = {}
        /\ Outstanding = {}
        /\ results = <<>>
        /\ finished = <<>>
        /\ returned = <<>>

\* C14 witness: an empty batch has returned although no client can be made
\* and the limit is above 1.
C14_Witness ==
    /\ products = <<>>
    /\ bpc = "returned"
    /\ returned = <<>>
    /\ ConfigError
    /\ concurrency_limit > 1
    /\ sem = 0

\* C15: when every step that is ready is taken and every invocation returns
\* or raises, every product waiting at the semaphore is admitted, and the
\* batch returns with one result per input product, for every limit and
\* every number of products, whichever runs fail.
C15_BatchReturns ==
    /\ <>(bpc = "returned" /\ Len(returned) = N)
    /\ \A i \in 1..MaxProducts :
          (i <= N /\ pc[i] = "waiting") ~> (i <= N /\ pc[i] # "waiting")

\* C15 witness: three products under a limit of 2, every first call raised,
\* so the product that waited was admitted on a slot a failed run gave back,
\* and the batch returned three results.
C15_Witness ==
    /\ N = 3
    /\ concurrency_limit = 2
    /\ ~ConfigError
    /\ \A i \in 1..N : resp1[i].kind = "raise" /\ calls[i] = 1
    /\ bpc = "returned"
    /\ Len(returned) = 3

\* C16: with a concurrency limit of 1 or less the products are run one at
\* a time in input order: at most one invocation is outstanding, the run of
\* a product has not begun (and none of its calls has started) before the
\* run of the product before it has ended, and the results are appended in
\* input order.
C16_OneAtATime ==
    concurrency_limit <= 1 =>
        /\ Cardinality(Outstanding) <= 1
        /\ sem = 0
        /\ \A i \in 1..(N - 1) :
              (pc[i + 1] # "idle" \/ calls[i + 1] > 0) => pc[i] = "done"
        /\ \A i \in 1..N : pc[i] = "done" <=> i <= Len(results)
        /\ \A k \in 1..Len(results) : results[k].product_id = products[k]

\* C16 witness: the limit is below 1; the first product's run has ended
\* after its refinement call, the second product's refinement call is
\* outstanding, and the third product's run has not begun.
C16_Witness ==
    /\ concurrency_limit < 1
    /\ N = 3
    /\ pc = <<"done", "call2", "idle">>
    /\ calls = <<2, 2, 0>>
    /\ Len(results) = 1

(***************************************************************************)
(* Claims about the calls of a run                                         *)
(***************************************************************************)

\* C17: when the first call of a product raises, its single-product run ends
\* by raising, with no query sequence made of it, and no refinement call is
\* made for the product, with self-check on as with it off.
C17_FirstCallReraised ==
    \A i \in 1..N :
        resp1[i].kind = "raise" =>
            /\ pc[i] = "done"
            /\ outcome[i] = Raised
            /\ calls[i] = 1
            /\ resp2[i] = NoResponse

\* C17 witness: with self-check on, the first call of the second product
\* raised and its run raised, while the first product's run went on to its
\* refinement call; only the batch made an empty result of the failure.
C17_Witness ==
    /\ llm_self_check
    /\ N >= 2
    /\ bpc = "returned"
    /\ resp1[2] = RespRaise
    /\ outcome[2] = Raised
    /\ calls[2] = 1
    /\ calls[1] = 2
    /\ returned[2].queries = <<>>

\* The first response of product i has no choices, no message on its first
\* choice, or no content in the message.
StructurallyEmpty(i) == resp1[i].kind \in {"nochoices", "nomessage", "nocontent"}

\* C18: when the first response is structurally empty, the single-product
\* run returns the empty query sequence and does not raise, with self-check
\* on as with it off.
C18_EmptyResponseReturnsEmpty ==
    \A i \in 1..N :
        StructurallyEmpty(i) =>
            /\ pc[i] = "done"
            /\ outcome[i] = Returned(<<>>)
            /\ bpc = "returned"
            /\ returned = <<GeneratedQueriesOut(products[i], <<>>)>>

\* C18 witness: with self-check on, the first response had a choice without
\* a message, and the run returned the empty sequence.
C18_Witness ==
    /\ llm_self_check
    /\ resp1[1] = RespNoMessage
    /\ outcome[1] = Returned(<<>>)
    /\ calls[1] = 1
    /\ bpc = "returned"

\* C20 (as claimed): a run that has ended has made one invocation when
\* self-check is off, when its first call raised or when its first response
\* was structurally empty, and two otherwise; no run makes more than two; a
\* refinement call is made only after the first call has returned a
\* response.
C20_CallCount ==
    \A i \in 1..N :
        /\ calls[i] <= 2
        /\ calls[i] = 2 => resp1[i].kind \notin {"none", "raise"}
        /\ pc[i] = "done" =>
              calls[i] = IF ~llm_self_check \/ resp1[i].kind = "raise" \/ StructurallyEmpty(i)
                         THEN 1 ELSE 2

\* C21 (as claimed): with self-check on, a first response that has content
\* and of which no query was accepted is followed by the refinement call,
\* and when the refinement pass keeps a query the run returns the refined
\* list, which is not empty.
C21_EmptyFirstPassRefined ==
    \A i \in 1..N :
        (llm_self_check /\ resp1[i].kind = "content" /\ out[i] = <<>>) =>
            /\ calls[i] = 2
            /\ (pc[i] = "done" /\ final[i] # <<>>) =>
                   (outcome[i] = Returned(final[i]) /\ outcome[i].queries # <<>>)

(***************************************************************************)
(* Claims about the semaphore                                              *)
(***************************************************************************)

\* The products whose task is inside `async with sem`: admitted, not ended.
Holders == {i \in 1..N : pc[i] \in {"call1", "call2"}}

\* The products whose task has been admitted, ended or not.
Admitted == {i \in 1..N : pc[i] \in {"call1", "call2", "done"}}

\* C22: on the concurrent path, once the semaphore is made with C slots,
\* its value stays between 0 and C; the value plus the tasks admitted and
\* not ended is C; a task is a holder exactly from its admission, before
\* its first call, to the end of its run, after its refinement call; every
\* task that ended did so once and gave back one slot, whether its run
\* raised or not; and the value is C when the batch has returned.
C22_SlotAccounting ==
    (concurrency_limit > 1 /\ bpc # "start" /\ products # <<>>) =>
        /\ sem >= 0
        /\ sem <= concurrency_limit
        /\ sem + Cardinality(Holders) = concurrency_limit
        /\ \A i \in 1..N : calls[i] > 0 => i \in Admitted
        /\ \A i \in 1..N : pc[i] = "call2" => calls[i] = 2
        /\ {finished[k] : k \in 1..Len(finished)} = {i \in 1..N : pc[i] = "done"}
        /\ \A k, l \in 1..Len(finished) : finished[k] = finished[l] => k = l
        /\ sem = concurrency_limit - Cardinality(Admitted) + Len(finished)
        /\ bpc = "returned" => sem = concurrency_limit

\* C22 witness: two slots and three products; the first product's run has
\* raised and given its slot back, the third product has been admitted on
\* it, the second is at its refinement call, and no slot is free.
C22_Witness ==
    /\ concurrency_limit = 2
    /\ bpc = "gather"
    /\ N = 3
    /\ pc = <<"done", "call2", "call1">>
    /\ outcome[1] = Raised
    /\ finished = <<1>>
    /\ sem = 0

(***************************************************************************)
(* Two runs of the batch compared                                          *)
(***************************************************************************)

\* Product i was given the same responses in the earlier run as in this one.
SameResponses(i) == resp1[i] = prev.resp1[i] /\ resp2[i] = prev.resp2[i]

\* C19: of two runs over the same products that have both returned, a
\* product that was given the same responses in both has the same result
\* in both, whatever the other products were given, whatever the two
\* concurrency limits, and in whatever order the runs' steps were taken.
C19_NonInterference ==
    (prev.ran /\ bpc = "returned") =>
        /\ Len(returned) = Len(prev.returned)
        /\ \A i \in 1..N : SameResponses(i) => returned[i] = prev.returned[i]

\* C19 witness: two runs have returned, this one concurrent; the first
\* product was given the same responses in both and has the same queries;
\* the second product's first call raised in this run and gave queries in
\* the earlier one, and the runs of this run ended out of input order.
C19_Witness ==
    /\ N >= 2
    /\ prev.ran
    /\ bpc = "returned"
    /\ concurrency_limit > 1
    /\ SameResponses(1)
    /\ returned[1].queries # <<>>
    /\ returned[1] = prev.returned[1]
    /\ resp1[2].kind = "raise"
    /\ prev.returned[2].queries # <<>>
    /\ finished = <<2, 1>>

====
